---- MODULE Spec2Model ----
(***************************************************************************)
(* ticktty: a terminal clock / countdown timer.                            *)
(*                                                                         *)
(*   Spec        the TimerApp state machine (src/src/TimerApp.ts) driven   *)
(*               by the keypress wiring of src/src/index.ts, the 100 ms    *)
(*               interval and the passage of time.                         *)
(*   SpecApi     the same with resetTimer callable in either mode.         *)
(*   SpecFormat  formatDuration applied to bounded inputs.                 *)
(*   SpecRender  render (content block, fit check, footer) applied to      *)
(*               bounded inputs.                                           *)
(*   SpecStart   start-up against the preferences file (utils/config),     *)
(*               the preference keys, quit and start again.                *)
(*   SpecMetrics getFontMetrics and getDigitalClock with their caches.     *)
(*                                                                         *)
(* Times are in milliseconds.  Text is a sequence of one-character         *)
(* strings.  Styling (chalk) sequences carry no visible length and are     *)
(* not represented.                                                        *)
(***************************************************************************)
EXTENDS Integers, Sequences, FiniteSets, TLC

VARIABLES
    \* ---- TimerApp fields (TimerApp.ts 31-41)
    style, fontIndex, useGlyphs, mode, interval, endTime, isPaused, remainingMs,
    \* ---- index.ts closure: the parsed duration argument (0 = none given)
    duration,
    \* ---- environment
    now,          \* Date.now()
    timers,       \* the runtime's active setInterval timers: [id, due]
    cursorHidden, \* terminal: cursor hidden
    altScreen,    \* terminal: alternate screen buffer entered
    exited,       \* process.exit was called
    exitCode,     \* its code
    notified,     \* notifier.notify was called
    stderr,       \* the messages written with console.error
    configFile,   \* content last written by saveConfig
    \* ---- observation of the last step
    phase,        \* "constructed" | "started"
    lastOp,       \* the operation the last step ran
    opArg,        \* its duration argument (0 when it has none)
    renders,      \* the render calls the last step made, in order
    saves,        \* the number of saveConfig calls the last step made
    \* ---- pure-function specifications
    fIn, fOut,    \* formatDuration: input ms, output text
    rIn, rOut,    \* render: arguments and terminal, frame
    \* ---- start-up and the preferences file
    disk,         \* ~/.config/ticktty/default.json
    proc,         \* "off" | "on": the program is not running / is running
    cliStyle,     \* the --style flag of the current run (NoFlag: not given)
    cfgOp,        \* the operation the last start-up step ran
    \* ---- the digital renderer's caches
    metricsCache, \* fontMetricsCache: font -> metrics
    digitCache,   \* the <<font, string>> pairs whose block is cached
    figletLog,    \* the figlet.textSync calls the last step made, in order
    mOp,          \* the renderer function the last step called
    mFont, mText, \* its font and text arguments
    mOut,         \* the metrics getFontMetrics returned
    dOut,         \* the rows getDigitalClock returned
    \* ---- the analog renderer
    aIn, aOut,    \* getAnalogClock: arguments, the board it drew
    \* ---- the run to completion
    presses       \* the pause and reset key presses made so far

appVars == <<style, fontIndex, useGlyphs, mode, interval, endTime, isPaused,
             remainingMs, duration, now, timers, cursorHidden, altScreen,
             exited, exitCode, notified, stderr, configFile, phase, lastOp,
             opArg, renders, saves>>
cfgVars == <<disk, proc, cliStyle, cfgOp>>
metricVars == <<metricsCache, digitCache, figletLog, mOp, mFont, mText, mOut,
                dOut>>
analogVars == <<aIn, aOut>>
liveVars == <<presses>>
libVars == <<fIn, fOut, rIn, rOut, cfgVars, metricVars, analogVars>>
pureVars == <<fIn, fOut, rIn, rOut, cfgVars, metricVars, analogVars, liveVars>>
vars == <<appVars, pureVars>>

(***************************************************************************)
(* Bounds of the model and program constants.                              *)
(***************************************************************************)
\* Date.now() is explored up to MaxTime.
MaxTime == 300
\* formatDuration is explored for hours 0..MaxHours (and 99, 100 besides).
MaxHours == 25
\* Amounts by which time advances in one step.
TimeSteps == {50, 100}
\* The parsed values of the duration argument (index.ts 159).
Durations == {120, 200}
\* The period of the recurring tick (TimerApp.ts 66, 83).
TickPeriod == 100
\* FONTS of index.ts 39-47 (two of its seven names).
FONTS == <<"Standard", "Small">>
Styles == {"digital", "analog", "text"}
\* this.label: options.label ?? "Timer" (TimerApp.ts 52).
Label == <<"T", "i", "m", "e", "r">>
\* The label togglePause passes to render (TimerApp.ts 167).
PausedLabel == <<"P", "A", "U", "S", "E", "D">>
\* The label tick passes in clock mode: null (TimerApp.ts 121).
NoLabel == <<>>

\* Style values the app can be constructed with: the --style flag and the
\* config file are passed on unvalidated (index.ts 109).
InitStyles == Styles \cup {"neon"}

(***************************************************************************)
(* Runtime: setInterval / clearInterval, terminal escape sequences.        *)
(***************************************************************************)
\* this.interval is undefined.
NoInterval == 0

TimerIds(ts) == {t.id : t \in ts}

\* The handle a new setInterval call returns: distinct from every live one
\* and from the handle the app still holds.
FreshId(ts, held) ==
    CHOOSE i \in 1..(Cardinality(ts) + 2) : i # held /\ i \notin TimerIds(ts)

\* clearInterval(h)
ClearInterval(ts, h) == {t \in ts : t.id # h}

\* setInterval(cb, 100) called at time `at`, returning handle `id`
SetInterval(ts, id, at) == ts \cup {[id |-> id, due |-> at + TickPeriod]}

\* Faulty variant of cleanup: the interval is left running.
cleanup_skip(ts, h) == ts

\* TimerApp.cleanup: if (this.interval) clearInterval(this.interval)
cleanup(ts, h) == IF h # NoInterval THEN ClearInterval(ts, h) ELSE ts

\* this.fonts[this.fontIndex]; an undefined font argument takes render's
\* default "Standard".
FontAt(i) == IF i \in 0..(Len(FONTS) - 1) THEN FONTS[i + 1] ELSE "Standard"

\* One call render.render(data, style, label, font, isPaused, useGlyphs).
\* data: a duration in ms (isTimer) or the Date taken at time v.
RenderCall(isTimer, v, st, label, font, paused, glyphs) ==
    [isTimer |-> isTimer, v |-> v, style |-> st, label |-> label,
     font |-> font, isPaused |-> paused, useGlyphs |-> glyphs]

(***************************************************************************)
(* TimerApp methods.  Each is an action fragment over the fields it        *)
(* writes; the actions below add what stays unchanged.                     *)
(***************************************************************************)
\* Faulty variant of StartEndTime: the duration is taken as the end time.
StartEndTime_absolute(t, durationMs) == durationMs

\* endTime = Date.now() + durationMs
StartEndTime(t, durationMs) == t + durationMs

\* remainingMs = endTime - Date.now()   (togglePause)
PauseRemaining(end, t) == end - t

\* Faulty variant of TickRemaining: the clock is not read.
TickRemaining_noClock(end, t) == end

\* remaining = endTime - Date.now()     (tick)
TickRemaining(end, t) == end - t

\* Faulty variant of TimerExpired: a remaining time of 0 is not expiry.
TimerExpired_strict(remaining) == remaining < 0

\* remaining <= 0
TimerExpired(remaining) == remaining <= 0

initDisplay ==
    /\ cursorHidden' = TRUE
    /\ altScreen' = TRUE

cleanupDisplay ==
    /\ cursorHidden' = FALSE
    /\ altScreen' = FALSE

startClock ==
    /\ mode' = "clock"
    /\ initDisplay
    /\ LET id == FreshId(cleanup(timers, interval), interval) IN
        /\ timers' = SetInterval(cleanup(timers, interval), id, now)
        /\ interval' = id

\* Faulty variant of startTimer: the previous interval is not cleared.
startTimer_noCleanup(durationMs) ==
    /\ mode' = "timer"
    /\ endTime' = StartEndTime(now, durationMs)
    /\ isPaused' = FALSE
    /\ initDisplay
    /\ LET id == FreshId(timers, interval) IN
        /\ timers' = SetInterval(timers, id, now)
        /\ interval' = id

startTimer(durationMs) ==
    /\ mode' = "timer"
    /\ endTime' = StartEndTime(now, durationMs)
    /\ isPaused' = FALSE
    /\ initDisplay
    /\ LET id == FreshId(cleanup(timers, interval), interval) IN
        /\ timers' = SetInterval(cleanup(timers, interval), id, now)
        /\ interval' = id

\* process.exit(code)
Exit(code) ==
    /\ exited' = TRUE
    /\ exitCode' = code

finish ==
    /\ timers' = cleanup(timers, interval)
    /\ renders' = <<RenderCall(TRUE, 0, style, Label, FontAt(fontIndex),
                               FALSE, useGlyphs)>>
    /\ cleanupDisplay
    /\ notified' = TRUE
    /\ Exit(0)

\* The body of tick; `t` is the interval timer that fired.
tick(t) ==
    IF mode = "timer" /\ ~isPaused
    THEN IF TimerExpired(TickRemaining(endTime, now))
         THEN finish
         ELSE /\ renders' = <<RenderCall(TRUE, TickRemaining(endTime, now),
                                         style, Label, FontAt(fontIndex),
                                         FALSE, useGlyphs)>>
              /\ timers' = (timers \ {t}) \cup {[t EXCEPT !.due = now + TickPeriod]}
              /\ UNCHANGED <<cursorHidden, altScreen, notified, exited, exitCode>>
    ELSE /\ renders' = IF mode = "clock"
                       THEN <<RenderCall(FALSE, now, style, NoLabel, FontAt(fontIndex),
                                         FALSE, useGlyphs)>>
                       ELSE <<>>
         /\ timers' = (timers \ {t}) \cup {[t EXCEPT !.due = now + TickPeriod]}
         /\ UNCHANGED <<cursorHidden, altScreen, notified, exited, exitCode>>

\* Faulty variant of togglePause: pausing leaves the interval running.
togglePause_keepTick ==
    IF mode # "timer"
    THEN /\ renders' = <<>>
         /\ UNCHANGED <<mode, endTime, isPaused, remainingMs, timers, interval,
                        cursorHidden, altScreen>>
    ELSE IF isPaused
         THEN /\ startTimer(remainingMs)
              /\ renders' = <<>>
              /\ UNCHANGED remainingMs
         ELSE /\ remainingMs' = PauseRemaining(endTime, now)
              /\ isPaused' = TRUE
              /\ renders' = <<RenderCall(TRUE, PauseRemaining(endTime, now), style,
                                         PausedLabel, FontAt(fontIndex), TRUE,
                                         useGlyphs)>>
              /\ UNCHANGED <<mode, endTime, interval, timers, cursorHidden,
                             altScreen>>

togglePause ==
    IF mode # "timer"
    THEN /\ renders' = <<>>
         /\ UNCHANGED <<mode, endTime, isPaused, remainingMs, timers, interval,
                        cursorHidden, altScreen>>
    ELSE IF isPaused
         THEN /\ startTimer(remainingMs)
              /\ renders' = <<>>
              /\ UNCHANGED remainingMs
         ELSE /\ remainingMs' = PauseRemaining(endTime, now)
              /\ isPaused' = TRUE
              /\ timers' = cleanup(timers, interval)
              /\ renders' = <<RenderCall(TRUE, PauseRemaining(endTime, now), style,
                                         PausedLabel, FontAt(fontIndex), TRUE,
                                         useGlyphs)>>
              /\ UNCHANGED <<mode, endTime, interval, cursorHidden, altScreen>>

\* Faulty variant of resetTimer: the mode is not checked.
resetTimer_anyMode(durationMs) == startTimer(durationMs)

resetTimer(durationMs) ==
    IF mode = "timer"
    THEN startTimer(durationMs)
    ELSE UNCHANGED <<mode, endTime, isPaused, timers, interval, cursorHidden,
                     altScreen>>

\* Faulty variant of saveState: the values before the assignment are saved.
saveState_stale ==
    /\ configFile' = [style |-> style, fontIndex |-> fontIndex,
                      useGlyphs |-> useGlyphs]
    /\ saves' = 1

\* saveConfig({style, fontIndex, useGlyphs}) with the values just assigned
saveState ==
    /\ configFile' = [style |-> style', fontIndex |-> fontIndex',
                      useGlyphs |-> useGlyphs']
    /\ saves' = 1

\* Faulty variant of setStyle: it saves whether or not the style changes.
setStyle_alwaysSaves(newStyle) ==
    /\ style' = newStyle
    /\ UNCHANGED <<fontIndex, useGlyphs>>
    /\ saveState

setStyle(newStyle) ==
    IF style # newStyle
    THEN /\ style' = newStyle
         /\ UNCHANGED <<fontIndex, useGlyphs>>
         /\ saveState
    ELSE /\ UNCHANGED <<style, fontIndex, useGlyphs, configFile>>
         /\ saves' = 0

\* (this.fontIndex + 1) % this.fonts.length
nextFontIndex(i) == (i + 1) % Len(FONTS)

\* Faulty variant of cycleFont: it acts in every style.
cycleFont_anyStyle ==
    /\ fontIndex' = nextFontIndex(fontIndex)
    /\ UNCHANGED <<style, useGlyphs>>
    /\ saveState

cycleFont ==
    IF style = "digital"
    THEN /\ fontIndex' = nextFontIndex(fontIndex)
         /\ UNCHANGED <<style, useGlyphs>>
         /\ saveState
    ELSE /\ UNCHANGED <<style, fontIndex, useGlyphs, configFile>>
         /\ saves' = 0

\* Faulty variant of toggleGlyphs: it acts in every style.
toggleGlyphs_anyStyle ==
    /\ useGlyphs' = ~useGlyphs
    /\ UNCHANGED <<style, fontIndex>>
    /\ saveState

toggleGlyphs ==
    IF style = "analog"
    THEN /\ useGlyphs' = ~useGlyphs
         /\ UNCHANGED <<style, fontIndex>>
         /\ saveState
    ELSE /\ UNCHANGED <<style, fontIndex, useGlyphs, configFile>>
         /\ saves' = 0

\* Faulty variant of quit: the terminal is not restored.
quit_noRestore ==
    /\ UNCHANGED <<cursorHidden, altScreen>>
    /\ Exit(0)

quit ==
    /\ cleanupDisplay
    /\ Exit(0)

(***************************************************************************)
(* The preferences file (utils/config).  A config object is a function     *)
(* from its keys to their values; a key whose value is undefined is        *)
(* absent.  A file text is either not JSON or the members it lists.        *)
(***************************************************************************)
ConfigKeys == <<"style", "fontIndex", "useGlyphs">>

EmptyObject == [k \in {} |-> k]

\* { ...a, ...b }
Spread(a, b) ==
    [k \in (DOMAIN a) \cup (DOMAIN b) |-> IF k \in DOMAIN b THEN b[k] ELSE a[k]]

RECURSIVE MembersFrom(_, _)
MembersFrom(obj, i) ==
    IF i > Len(ConfigKeys) THEN <<>>
    ELSE (IF ConfigKeys[i] \in DOMAIN obj
          THEN << <<ConfigKeys[i], obj[ConfigKeys[i]]>> >>
          ELSE <<>>) \o MembersFrom(obj, i + 1)

\* JSON.stringify(config, null, 2): the defined members, in key order
JSONstringify(obj) == [valid |-> TRUE, members |-> MembersFrom(obj, 1)]

\* The object a member list denotes; a repeated key takes its last value.
ObjectOf(members) ==
    [k \in {members[i][1] : i \in DOMAIN members} |->
        LET last == CHOOSE i \in DOMAIN members :
                        /\ members[i][1] = k
                        /\ \A j \in DOMAIN members : members[j][1] = k => j <= i
        IN  members[last][2]]

\* JSON.parse(data): throws on a text that is not JSON
JSONparse(text) ==
    IF text.valid
    THEN [threw |-> FALSE, value |-> ObjectOf(text.members)]
    ELSE [threw |-> TRUE, value |-> EmptyObject]

NotJson == [valid |-> FALSE, members |-> <<>>]

\* No file at CONFIG_FILE.
NoFile == [exists |-> FALSE, text |-> NotJson]

DEFAULT_CONFIG == [style |-> "digital", fontIndex |-> 0]

\* The body of loadConfig's try block.
loadConfigTry(file) ==
    IF ~file.exists
    THEN [threw |-> FALSE, value |-> DEFAULT_CONFIG]
    ELSE LET parsed == JSONparse(file.text)
         IN  IF parsed.threw
             THEN [threw |-> TRUE, value |-> EmptyObject]
             ELSE [threw |-> FALSE, value |-> Spread(DEFAULT_CONFIG, parsed.value)]

\* Faulty variant of loadConfig: the exception is not caught.
loadConfig_noCatch(file) == loadConfigTry(file)

\* loadConfig(): whether it raised, and the object it returned
loadConfig(file) ==
    LET r == loadConfigTry(file)
    IN  IF r.threw THEN [threw |-> FALSE, value |-> DEFAULT_CONFIG] ELSE r

\* saveConfig(config): the file after the write
saveConfig(file, config) == [exists |-> TRUE, text |-> JSONstringify(config)]

NoFlag == "none"

cfgIdle ==
    /\ disk = NoFile
    /\ proc = "off"
    /\ cliStyle = NoFlag
    /\ cfgOp = "none"

NoMetrics == [blockWidth |-> 0, sepWidth |-> 0, height |-> 0]

\* The renderer module just loaded: both caches empty, nothing called.
metricIdle ==
    /\ metricsCache = EmptyObject
    /\ digitCache = {}
    /\ figletLog = <<>>
    /\ mOp = "none"
    /\ mFont = "Standard"
    /\ mText = <<>>
    /\ mOut = NoMetrics
    /\ dOut = <<>>

NoAnalogInput == [isTimer |-> FALSE, v |-> 0, useGlyphs |-> FALSE]

\* getAnalogClock not called yet.
analogIdle ==
    /\ aIn = NoAnalogInput
    /\ aOut = EmptyObject

\* No pause or reset key pressed yet.
liveIdle == presses = 0

(***************************************************************************)
(* The program: index.ts constructs the app, wires the keys and starts it. *)
(***************************************************************************)
\* The duration argument: absent, given but unparseable or zero (ms = 0),
\* or given with a positive parse.
DurationArgs ==
    {[given |-> FALSE, ms |-> 0], [given |-> TRUE, ms |-> 0]}
        \cup {[given |-> TRUE, ms |-> d] : d \in Durations}

NoRenderInput ==
    [isTimer |-> FALSE, v |-> 0, style |-> "text", label |-> <<>>,
     font |-> "Standard", isPaused |-> FALSE, useGlyphs |-> FALSE,
     rows |-> 0, columns |-> 0]

NoFrame ==
    [content |-> <<>>, footer |-> <<>>, effectiveStyle |-> "none",
     layout |-> [topPad |-> 0, linePad |-> <<>>, bottomPad |-> 0, footerPad |-> 0]]

pureIdle ==
    /\ fIn = 0
    /\ fOut = <<>>
    /\ rIn = NoRenderInput
    /\ rOut = NoFrame
    /\ cfgIdle
    /\ metricIdle
    /\ analogIdle
    /\ liveIdle

appIdle ==
    /\ style = "digital" /\ fontIndex = 0 /\ useGlyphs = FALSE
    /\ mode = "clock" /\ interval = NoInterval /\ endTime = 0
    /\ isPaused = FALSE /\ remainingMs = 0
    /\ duration = [given |-> FALSE, ms |-> 0]
    /\ now = 0 /\ timers = {}
    /\ cursorHidden = FALSE /\ altScreen = FALSE
    /\ exited = FALSE /\ exitCode = 0 /\ notified = FALSE
    /\ stderr = <<>>
    /\ configFile = [style |-> "digital", fontIndex |-> 0, useGlyphs |-> FALSE]
    /\ phase = "constructed" /\ lastOp = "init" /\ opArg = 0
    /\ renders = <<>> /\ saves = 0

\* The state after `new TimerApp(options)`: style is the flag or else the
\* configured style, fontIndex and useGlyphs are the configured ones.
Init ==
    /\ style \in InitStyles
    /\ fontIndex \in 0..(Len(FONTS) - 1)
    /\ useGlyphs \in BOOLEAN
    /\ mode = "clock" /\ interval = NoInterval /\ endTime = 0
    /\ isPaused = FALSE /\ remainingMs = 0
    /\ duration \in DurationArgs
    /\ now = 0 /\ timers = {}
    /\ cursorHidden = FALSE /\ altScreen = FALSE
    /\ exited = FALSE /\ exitCode = 0 /\ notified = FALSE
    /\ stderr = <<>>
    /\ configFile \in {[style |-> s, fontIndex |-> fontIndex,
                         useGlyphs |-> useGlyphs] : s \in {style, "digital"}}
    /\ phase = "constructed" /\ lastOp = "init" /\ opArg = 0
    /\ renders = <<>> /\ saves = 0
    /\ pureIdle

noPrefs == UNCHANGED <<style, fontIndex, useGlyphs, configFile>> /\ saves' = 0
noTimer == UNCHANGED <<mode, interval, endTime, isPaused, remainingMs, timers>>
noTerm == UNCHANGED <<cursorHidden, altScreen>>
noExit == UNCHANGED <<exited, exitCode, notified>>

\* Faulty variant of rejectDuration: the exit reports success.
rejectDuration_exitZero ==
    /\ stderr' = Append(stderr, "Invalid duration format")
    /\ Exit(0)

\* console.error("Invalid duration format"); process.exit(1)
rejectDuration ==
    /\ stderr' = Append(stderr, "Invalid duration format")
    /\ Exit(1)

\* index.ts 158-167
Run ==
    /\ phase = "constructed" /\ ~exited
    /\ phase' = "started"
    /\ lastOp' = "run"
    /\ opArg' = duration.ms
    /\ renders' = <<>>
    /\ noPrefs
    /\ IF duration.given
       THEN IF duration.ms = 0
            THEN /\ rejectDuration
                 /\ noTimer /\ noTerm /\ UNCHANGED notified
            ELSE /\ startTimer(duration.ms)
                 /\ UNCHANGED <<remainingMs, exited, exitCode, notified,
                                stderr>>
       ELSE /\ startClock
            /\ UNCHANGED <<endTime, isPaused, remainingMs, exited, exitCode,
                           notified, stderr>>
    /\ UNCHANGED <<duration, now, pureVars>>

running == phase = "started" /\ ~exited

\* setInterval callback of timer t
Tick(t) ==
    /\ running
    /\ t \in timers
    /\ now >= t.due
    /\ tick(t)
    /\ lastOp' = "tick"
    /\ opArg' = 0
    /\ noPrefs
    /\ UNCHANGED <<mode, interval, endTime, isPaused, remainingMs>>
    /\ UNCHANGED <<duration, now, phase, stderr, pureVars>>

\* Time passes.
Advance(d) ==
    /\ running
    /\ now + d <= MaxTime
    /\ now' = now + d
    /\ lastOp' = "advance"
    /\ opArg' = 0
    /\ renders' = <<>>
    /\ noPrefs /\ noTimer /\ noTerm /\ noExit
    /\ UNCHANGED <<duration, phase, stderr, pureVars>>

\* key q, or Ctrl+C in raw mode (index.ts 127-129)
KeyQuit ==
    /\ running
    /\ quit
    /\ lastOp' = "quit"
    /\ opArg' = 0
    /\ renders' = <<>>
    /\ noPrefs /\ noTimer /\ UNCHANGED notified
    /\ UNCHANGED <<duration, now, phase, stderr, pureVars>>

\* process.on("SIGINT") (index.ts 69-75)
Sigint ==
    /\ ~exited
    /\ cleanupDisplay
    /\ Exit(0)
    /\ lastOp' = "sigint"
    /\ opArg' = 0
    /\ renders' = <<>>
    /\ noPrefs /\ noTimer /\ UNCHANGED notified
    /\ UNCHANGED <<duration, now, phase, stderr, pureVars>>

\* keys d, a, t (index.ts 131-139)
KeyStyle(s) ==
    /\ running
    /\ setStyle(s)
    /\ lastOp' = "setStyle"
    /\ opArg' = 0
    /\ renders' = <<>>
    /\ noTimer /\ noTerm /\ noExit
    /\ UNCHANGED <<duration, now, phase, stderr, pureVars>>

\* key f (index.ts 140-142)
KeyFont ==
    /\ running
    /\ cycleFont
    /\ lastOp' = "cycleFont"
    /\ opArg' = 0
    /\ renders' = <<>>
    /\ noTimer /\ noTerm /\ noExit
    /\ UNCHANGED <<duration, now, phase, stderr, pureVars>>

\* key g (index.ts 143-145)
KeyGlyphs ==
    /\ running
    /\ toggleGlyphs
    /\ lastOp' = "toggleGlyphs"
    /\ opArg' = 0
    /\ renders' = <<>>
    /\ noTimer /\ noTerm /\ noExit
    /\ UNCHANGED <<duration, now, phase, stderr, pureVars>>

\* key r (index.ts 147-150): resetTimer(ms ?? 0) when a duration was given
KeyReset ==
    /\ running
    /\ IF duration.given
       THEN /\ resetTimer(duration.ms)
            /\ lastOp' = "resetTimer"
            /\ opArg' = duration.ms
       ELSE /\ UNCHANGED <<mode, endTime, isPaused, timers, interval,
                           cursorHidden, altScreen>>
            /\ lastOp' = "none"
            /\ opArg' = 0
    /\ renders' = <<>>
    /\ noPrefs /\ noExit
    /\ UNCHANGED <<remainingMs, duration, now, phase, stderr, pureVars>>

\* key space (index.ts 152-154)
KeySpace ==
    /\ running
    /\ togglePause
    /\ lastOp' = "togglePause"
    /\ opArg' = 0
    /\ noPrefs /\ noExit
    /\ UNCHANGED <<duration, now, phase, stderr, pureVars>>

Next ==
    \/ Run
    \/ \E t \in timers : Tick(t)
    \/ \E d \in TimeSteps : Advance(d)
    \/ KeyQuit
    \/ Sigint
    \/ \E s \in Styles : KeyStyle(s)
    \/ KeyFont
    \/ KeyGlyphs
    \/ KeyReset
    \/ KeySpace

Spec == Init /\ [][Next]_vars

(***************************************************************************)
(* The TimerApp class used directly, as tests/config.test.js does:         *)
(* resetTimer may be called with any duration in either mode.              *)
(***************************************************************************)
ApiResetTimer(d) ==
    /\ running
    /\ resetTimer(d)
    /\ lastOp' = "resetTimer"
    /\ opArg' = d
    /\ renders' = <<>>
    /\ noPrefs /\ noExit
    /\ UNCHANGED <<remainingMs, duration, now, phase, stderr, pureVars>>

NextApi ==
    \/ Next
    \/ \E d \in Durations : ApiResetTimer(d)

SpecApi == Init /\ [][NextApi]_vars

(***************************************************************************)
(* Properties of the TimerApp state machine.                               *)
(***************************************************************************)
\* The recurring tick is active: the handle the app holds is a live timer.
tickActive == \E t \in timers : t.id = interval

\* The time at which the current pause began (meaningful while isPaused).
pauseBegan == endTime - remainingMs

\* C1: pausing a running timer makes exactly one render call, with
\* isPaused = TRUE and data = endTime - now, and cancels the tick; as long
\* as the timer stays paused no step renders and no tick fires, whatever
\* time elapses.
C1_PauseRendersOnce ==
    [][/\ (lastOp' = "togglePause" /\ mode = "timer" /\ ~isPaused) =>
            /\ isPaused'
            /\ Len(renders') = 1
            /\ renders'[1].isTimer
            /\ renders'[1].isPaused
            /\ renders'[1].v = endTime - now
            /\ timers' = {}
       /\ (isPaused /\ isPaused') =>
            /\ renders' = <<>>
            /\ lastOp' # "tick"
            /\ timers' = {}]_vars

\* C1 witness: the timer is paused and two tick periods have elapsed since.
C1_Witness ==
    /\ isPaused
    /\ lastOp = "advance"
    /\ now - pauseBegan >= TickPeriod + TickPeriod

\* C2: a pause captures remainingMs = endTime - now and keeps it (and
\* endTime) frozen; togglePause on a paused timer leaves it running with
\* endTime = now + remainingMs, i.e. with the remaining time of the moment
\* of the pause, and with the recurring tick active again.
C2_ResumeKeepsRemaining ==
    [][/\ (lastOp' = "togglePause" /\ mode = "timer" /\ ~isPaused) =>
            remainingMs' = endTime - now
       /\ (isPaused /\ isPaused') => UNCHANGED <<remainingMs, endTime>>
       /\ (lastOp' = "togglePause" /\ isPaused) =>
            /\ ~isPaused'
            /\ mode' = "timer"
            /\ endTime' = now + remainingMs
            /\ endTime' - now' = remainingMs'
            /\ Cardinality(timers') = 1
            /\ \E t \in timers' : t.id = interval' /\ t.due = now + TickPeriod]_vars

\* C2 witness: a timer was resumed after a pause that lasted a while, with
\* time still remaining.
C2_Witness ==
    /\ lastOp = "togglePause"
    /\ mode = "timer"
    /\ ~isPaused
    /\ remainingMs > 0
    /\ endTime = now + remainingMs
    /\ endTime > duration.ms

\* C3: a tick of a running timer with endTime - now <= 0 finishes: the
\* tick is cancelled, render is called once with data 0 and isPaused FALSE,
\* the terminal is restored and the process exits with code 0.  Only such a
\* tick finishes, and no step follows the exit.
C3_FinishOnExpiry ==
    [][/\ (lastOp' = "tick" /\ mode = "timer" /\ ~isPaused /\ endTime - now <= 0) =>
            /\ exited' /\ exitCode' = 0 /\ notified'
            /\ Len(renders') = 1
            /\ renders'[1].isTimer
            /\ renders'[1].v = 0
            /\ ~renders'[1].isPaused
            /\ ~cursorHidden' /\ ~altScreen'
            /\ ~tickActive'
       /\ (notified' /\ ~notified) =>
            /\ lastOp' = "tick"
            /\ mode = "timer" /\ ~isPaused /\ endTime - now <= 0
       /\ ~exited]_vars

\* C3 witness: the timer has finished.
C3_Witness ==
    /\ exited
    /\ notified
    /\ lastOp = "tick"
    /\ mode = "timer"

\* C4: every duration passed to render is non-negative.
C4_RenderDataNonNegative ==
    \A i \in DOMAIN renders : renders[i].isTimer => renders[i].v >= 0

\* C5: resetTimer(d) in timer mode leaves the timer running, not paused,
\* with the tick active and endTime = now + d; in clock mode it changes
\* nothing and starts no timer.
C5_ResetRestarts ==
    [][lastOp' = "resetTimer" =>
         IF mode = "timer"
         THEN /\ mode' = "timer"
              /\ ~isPaused'
              /\ endTime' = now + opArg'
              /\ Cardinality(timers') = 1
              /\ \E t \in timers' : t.id = interval' /\ t.due = now + TickPeriod
         ELSE UNCHANGED <<style, fontIndex, useGlyphs, mode, interval, endTime,
                          isPaused, remainingMs, timers, cursorHidden,
                          altScreen, exited, configFile>>]_vars

\* C5 witness: resetTimer was called in clock mode.
C5_Witness ==
    /\ lastOp = "resetTimer"
    /\ mode = "clock"
    /\ opArg > 0
    /\ tickActive

prefs == [style |-> style, fontIndex |-> fontIndex, useGlyphs |-> useGlyphs]

\* C11: every step that changes style, fontIndex or useGlyphs calls
\* saveConfig with the new values, and once the last saveConfig argument
\* equals the current preferences it stays equal: after any sequence of
\* setStyle / cycleFont / toggleGlyphs in which a call changed the state,
\* the most recent saveConfig argument is the current (style, fontIndex,
\* useGlyphs).
C11_SavedIsCurrent ==
    [][/\ (prefs' # prefs) => (saves' = 1 /\ configFile' = prefs')
       /\ (saves' = 1) => (configFile' = prefs')
       /\ (configFile = prefs) => (configFile' = prefs')]_vars

\* C11 witness: a glyph toggle in analog style was the last change, made
\* with the second font selected, and its save holds the current values.
C11_Witness ==
    /\ lastOp = "toggleGlyphs"
    /\ saves = 1
    /\ style = "analog"
    /\ fontIndex = 1
    /\ useGlyphs
    /\ configFile = prefs

\* What setStyle, cycleFont and toggleGlyphs never touch: the timing state
\* and the recurring tick; and they make no render call.
timingUntouched ==
    /\ UNCHANGED <<mode, endTime, isPaused, remainingMs, timers, interval>>
    /\ renders' = <<>>

\* C13: setStyle(s) with s different from the current style sets style to s
\* and calls saveConfig once, with the new preferences; with s equal to the
\* current style it changes nothing and does not save.  Either way
\* fontIndex, useGlyphs, mode, endTime, isPaused and the tick are unchanged
\* and nothing is rendered.
C13_SetStyleEffect ==
    [][\A s \in Styles :
         KeyStyle(s) =>
            /\ style' = s
            /\ IF style # s
               THEN saves' = 1 /\ configFile' = prefs'
               ELSE saves' = 0 /\ UNCHANGED configFile
            /\ UNCHANGED <<fontIndex, useGlyphs>>
            /\ timingUntouched]_vars

\* C13 witness: the style of a paused timer was changed to text and saved.
C13_Witness ==
    /\ lastOp = "setStyle"
    /\ saves = 1
    /\ style = "text"
    /\ configFile.style = "text"
    /\ isPaused

\* i after n applications of the font step
RECURSIVE CycleTimes(_, _)
CycleTimes(i, n) == IF n = 0 THEN i ELSE CycleTimes(nextFontIndex(i), n - 1)

InFontRange(i) == i \in 0..(Len(FONTS) - 1)

\* C14: in digital style cycleFont sets fontIndex to (fontIndex + 1) mod
\* fonts.length and saves; an index in range stays in range, and
\* fonts.length consecutive calls bring it back to where it started.  In
\* any other style it changes nothing and does not save.  It never touches
\* the style, the glyph flag, the timing state or the tick.
C14_CycleFontEffect ==
    [][KeyFont =>
         /\ IF style = "digital"
            THEN /\ fontIndex' = (fontIndex + 1) % Len(FONTS)
                 /\ InFontRange(fontIndex) => InFontRange(fontIndex')
                 /\ CycleTimes(fontIndex', Len(FONTS) - 1) = fontIndex
                 /\ saves' = 1
                 /\ configFile' = prefs'
            ELSE /\ UNCHANGED <<fontIndex, configFile>>
                 /\ saves' = 0
         /\ UNCHANGED <<style, useGlyphs>>
         /\ timingUntouched]_vars

\* C14 witness: cycling from the last font wrapped around to the first.
C14_Witness ==
    /\ lastOp = "cycleFont"
    /\ saves = 1
    /\ style = "digital"
    /\ fontIndex = 0
    /\ configFile.fontIndex = 0

\* C15: in analog style toggleGlyphs negates useGlyphs and saves, so that
\* a second call restores the value; in any other style it changes nothing
\* and does not save.  It never touches the style, the font index, the
\* timing state or the tick.
C15_ToggleGlyphsEffect ==
    [][KeyGlyphs =>
         /\ IF style = "analog"
            THEN /\ useGlyphs' = ~useGlyphs
                 /\ saves' = 1
                 /\ configFile' = prefs'
            ELSE /\ UNCHANGED <<useGlyphs, configFile>>
                 /\ saves' = 0
         /\ UNCHANGED <<style, fontIndex>>
         /\ timingUntouched]_vars

\* C15 witness: glyphs were switched off again on a running analog timer.
C15_Witness ==
    /\ lastOp = "toggleGlyphs"
    /\ saves = 1
    /\ style = "analog"
    /\ ~useGlyphs
    /\ configFile.useGlyphs = FALSE
    /\ mode = "timer"
    /\ now > 0

\* A duration argument was given that does not parse, or parses to 0.
invalidDuration == duration.given /\ duration.ms = 0

\* C19: once the program has run with a duration argument that cannot be
\* parsed (or parses to 0) it has printed an error and exited with code 1,
\* and no timer was started, no tick scheduled, the display was not
\* initialised and render was not called.
C19_InvalidDurationExits ==
    (phase = "started" /\ invalidDuration) =>
        /\ exited
        /\ exitCode = 1
        /\ stderr = <<"Invalid duration format">>
        /\ lastOp = "run"
        /\ mode = "clock" /\ endTime = 0
        /\ timers = {} /\ interval = NoInterval
        /\ ~cursorHidden /\ ~altScreen
        /\ renders = <<>>

\* C19 witness: the program was started with an invalid duration and
\* has exited with code 1.
C19_Witness ==
    /\ phase = "started"
    /\ invalidDuration
    /\ exited
    /\ exitCode = 1
    /\ stderr # <<>>

\* C16: every render call receives a style in {digital, analog, text} and
\* a font taken from the font list at an index in [0, fonts.length),
\* whatever the --style flag and the config file contained.
C16_RenderArgsValid ==
    \A i \in DOMAIN renders :
        /\ renders[i].style \in Styles
        /\ InFontRange(fontIndex)
        /\ renders[i].font = FONTS[fontIndex + 1]

C22_PausedHasNoTick ==
    (phase = "started" /\ ~exited) =>
        /\ isPaused => (mode = "timer" /\ timers = {} /\ ~tickActive)
        /\ (mode = "timer" /\ ~isPaused) => tickActive
        /\ (mode = "clock") => tickActive

\* C22 witness: a timer is paused, with no tick, and a style key was
\* pressed during the pause.
C22_Witness ==
    /\ phase = "started" /\ ~exited
    /\ isPaused
    /\ mode = "timer"
    /\ timers = {}
    /\ lastOp = "setStyle"
    /\ saves = 1

\* C29: in timer mode every render call the app makes (tick, pause, final)
\* passes the app's configured label, so the label shown never changes
\* during a run.
C29_LabelConstant ==
    \A i \in DOMAIN renders :
        renders[i].isTimer => renders[i].label = Label

(***************************************************************************)
(* Time/duration formatter (renderers: formatDuration, formatTime).        *)
(***************************************************************************)
Max(a, b) == IF a >= b THEN a ELSE b

DigitChars == <<"0", "1", "2", "3", "4", "5", "6", "7", "8", "9">>

RECURSIVE NatToString(_)
NatToString(n) ==
    IF n < 10 THEN <<DigitChars[n + 1]>>
    ELSE NatToString(n \div 10) \o <<DigitChars[(n % 10) + 1]>>

\* Number.prototype.toString() of an integer
toString(n) == IF n < 0 THEN <<"-">> \o NatToString(-n) ELSE NatToString(n)

\* s.padStart(2, "0")
PadStart2(s) == IF Len(s) >= 2 THEN s ELSE <<"0">> \o s

\* a % b of JavaScript: the remainder takes the sign of the dividend
JsMod(a, b) == IF a >= 0 THEN a % b ELSE -((-a) % b)

\* Math.floor(a / b), b > 0
FloorDiv(a, b) == a \div b

\* Math.ceil(a / b), b > 0
CeilDiv(a, b) == -((-a) \div b)

\* Faulty variant of TotalSeconds: rounding down.
TotalSeconds_floor(ms) == FloorDiv(ms, 1000)

\* totalSeconds = Math.ceil(ms / 1000)
TotalSeconds(ms) == CeilDiv(ms, 1000)

formatDuration(ms) ==
    LET totalSeconds == TotalSeconds(ms)
        seconds == JsMod(totalSeconds, 60)
        minutes == JsMod(FloorDiv(totalSeconds, 60), 60)
        hours == FloorDiv(totalSeconds, 3600)
    IN  PadStart2(toString(hours)) \o <<":">> \o PadStart2(toString(minutes))
            \o <<":">> \o PadStart2(toString(seconds))

\* A Date is its timestamp in ms; local time is taken at offset zero.
getHours(date) == (date \div 3600000) % 24
getMinutes(date) == (date \div 60000) % 60
getSeconds(date) == (date \div 1000) % 60

formatTime(date) ==
    PadStart2(toString(getHours(date))) \o <<":">>
        \o PadStart2(toString(getMinutes(date))) \o <<":">>
        \o PadStart2(toString(getSeconds(date)))

\* text.split(":")
RECURSIVE Split(_)
Split(text) ==
    IF \A i \in DOMAIN text : text[i] # ":" THEN <<text>>
    ELSE LET k == CHOOSE i \in DOMAIN text :
                      text[i] = ":" /\ \A j \in 1..(i - 1) : text[j] # ":"
         IN  <<SubSeq(text, 1, k - 1)>> \o Split(SubSeq(text, k + 1, Len(text)))

(***************************************************************************)
(* SpecFormat: formatDuration on bounded inputs.                           *)
(***************************************************************************)
\* Durations h:m:s plus a fraction of a second, in ms.
FormatInputs ==
    {((h * 60 + m) * 60 + s) * 1000 + f :
        h \in (0..MaxHours) \cup {99, 100},
        m \in {0, 1, 59}, s \in {0, 1, 59}, f \in {0, 1, 999}}

InitFormat ==
    /\ appIdle
    /\ fIn \in FormatInputs
    /\ fOut = <<>>
    /\ rIn = NoRenderInput
    /\ rOut = NoFrame
    /\ cfgIdle
    /\ metricIdle
    /\ analogIdle
    /\ liveIdle

FormatDuration ==
    /\ fOut = <<>>
    /\ fOut' = formatDuration(fIn)
    /\ UNCHANGED <<appVars, fIn, rIn, rOut, cfgVars, metricVars, analogVars,
                 liveVars>>

NextFormat == FormatDuration

SpecFormat == InitFormat /\ [][NextFormat]_vars

\* Reading a string of decimal digits back as a number.
RECURSIVE ParseDigits(_)
ParseDigits(s) ==
    IF s = <<>> THEN 0
    ELSE ParseDigits(SubSeq(s, 1, Len(s) - 1)) * 10
            + ((CHOOSE d \in 1..10 : DigitChars[d] = s[Len(s)]) - 1)

IsDigits(s) == \A i \in DOMAIN s : \E d \in 1..10 : DigitChars[d] = s[i]

\* C8: for ms >= 0 the text is HH:MM:SS with two-digit minutes and seconds
\* in 0..59 and hours of at least two digits, not wrapped at 24; read back
\* as hours*3600 + minutes*60 + seconds it is the least whole number of
\* seconds >= ms/1000; and it is 00:00:00 only for ms = 0.
C8_FormatDurationCeiling ==
    fOut # <<>> =>
        LET parts == Split(fOut) IN
        /\ Len(parts) = 3
        /\ \A i \in 1..3 : IsDigits(parts[i])
        /\ Len(parts[1]) >= 2 /\ Len(parts[2]) = 2 /\ Len(parts[3]) = 2
        /\ LET hh == ParseDigits(parts[1])
               mm == ParseDigits(parts[2])
               ss == ParseDigits(parts[3])
               back == hh * 3600 + mm * 60 + ss
           IN  /\ mm \in 0..59 /\ ss \in 0..59
               /\ back * 1000 >= fIn
               /\ (back - 1) * 1000 < fIn
               /\ (back = 0) <=> (fIn = 0)

\* C8 witness: a duration of more than 24 hours that is not a whole number
\* of seconds has been formatted.
C8_Witness ==
    /\ fOut # <<>>
    /\ fIn > 24 * 3600000
    /\ fIn % 1000 # 0

(***************************************************************************)
(* The large-font rendering capability (figlet.textSync), an external      *)
(* collaborator.  A rendering is the sequence of its rows; a row is        *)
(* represented by its length.  Each font has a row count and a width per   *)
(* character; the widths are representative, not measured.                 *)
(***************************************************************************)
FigletFont(font) ==
    IF font = "Small"
    THEN [rows |-> 5, sepRows |-> 4, sep |-> 3, dash |-> 4,
          digit |-> <<5, 3, 4, 4, 5, 4, 4, 4, 4, 5>>]
    ELSE IF font = "Banner"
    THEN [rows |-> 4, sepRows |-> 5, sep |-> 3, dash |-> 8,
          digit |-> <<8, 8, 8, 8, 8, 8, 8, 8, 8, 8>>]
    ELSE [rows |-> 6, sepRows |-> 6, sep |-> 4, dash |-> 6,
          digit |-> <<7, 4, 6, 6, 7, 6, 6, 7, 6, 7>>]

FigletCharWidth(font, ch) ==
    IF ch = ":" THEN FigletFont(font).sep
    ELSE IF ch = "-" THEN FigletFont(font).dash
    ELSE FigletFont(font).digit[CHOOSE d \in 1..10 : DigitChars[d] = ch]

RECURSIVE FigletWidth(_, _)
FigletWidth(font, str) ==
    IF str = <<>> THEN 0
    ELSE FigletCharWidth(font, str[1]) + FigletWidth(font, Tail(str))

\* figlet.textSync(str, {font}).split("\n")
FigletTextSync(font, str) ==
    [i \in 1..(IF str = <<":">> THEN FigletFont(font).sepRows
                                ELSE FigletFont(font).rows)
        |-> FigletWidth(font, str)]

SetMax(S) == CHOOSE m \in S : \A x \in S : x <= m

SeqMax(q) == IF q = <<>> THEN 0 ELSE SetMax({q[i] : i \in DOMAIN q})

(***************************************************************************)
(* Glyph metrics and the block-digit renderer.                             *)
(***************************************************************************)
\* The two-digit strings "00".."59" that getFontMetrics measures.
MeasuredStrings == {PadStart2(toString(i)) : i \in 0..59}

\* The measurement getFontMetrics makes on a cache miss.
measureFont(font) ==
    LET sepLines == FigletTextSync(font, <<":">>)
        maxBlockWidth ==
            SetMax({SeqMax(FigletTextSync(font, numStr)) : numStr \in MeasuredStrings})
        digitHeight ==
            SetMax({Len(FigletTextSync(font, numStr)) : numStr \in MeasuredStrings})
    IN  [blockWidth |-> maxBlockWidth,
         sepWidth |-> SeqMax(sepLines),
         height |-> Max(digitHeight, Len(sepLines))]

FontNames == {FONTS[i] : i \in DOMAIN FONTS}

\* The fonts the digital renderer is exercised with: those of the list and
\* one whose digit blocks have fewer rows than its separator.
FigletFonts == FontNames \cup {"Banner"}

\* fontMetricsCache, filled: the measurement of each font, made once.
fontMetricsCache == [f \in FigletFonts |-> measureFont(f)]

getFontMetrics(font) == fontMetricsCache[font]

\* Faulty variant of padBlockLines: the block keeps its own row count.
padBlockLines_asIs(lines, targetWidth, height) ==
    [i \in 1..Len(lines) |->
        LET line == lines[i]
            padding == Max(0, targetWidth - line)
            leftPad == padding \div 2
        IN  leftPad + line + Max(0, padding - leftPad)]

\* padBlockLines(lines, targetWidth): metrics.height rows, each centred
padBlockLines(lines, targetWidth, height) ==
    [i \in 1..height |->
        LET line == IF i <= Len(lines) THEN lines[i] ELSE 0
            padding == Max(0, targetWidth - line)
            leftPad == padding \div 2
        IN  leftPad + line + Max(0, padding - leftPad)]

\* block[i] inside a string concatenation: a missing row reads "undefined"
RowAt(block, i) == IF i \in DOMAIN block THEN block[i] ELSE 9

getDigitalClock(text, font) ==
    LET metrics == getFontMetrics(font)
        parts == Split(text)
        hBlock == padBlockLines(FigletTextSync(font, parts[1]),
                                metrics.blockWidth, metrics.height)
        mBlock == padBlockLines(FigletTextSync(font, parts[2]),
                                metrics.blockWidth, metrics.height)
        sBlock == padBlockLines(FigletTextSync(font, parts[3]),
                                metrics.blockWidth, metrics.height)
        sepBlock == padBlockLines(FigletTextSync(font, <<":">>),
                                  metrics.sepWidth, metrics.height)
    IN  [i \in DOMAIN hBlock |->
            hBlock[i] + RowAt(sepBlock, i) + RowAt(mBlock, i)
                + RowAt(sepBlock, i) + RowAt(sBlock, i)]

(***************************************************************************)
(* The analog face: a grid of sizeY rows of sizeX cells.                   *)
(***************************************************************************)
sizeY == 45
sizeX == 90

\* getAnalogClock(...).split("\n"): the rows of the board, by length
getAnalogClock == [i \in 1..sizeY |-> sizeX]

\* const radius = 21; centerY = Math.floor(sizeY / 2); centerX likewise
radius == 21
centerY == FloorDiv(sizeY, 2)
centerX == FloorDiv(sizeX, 2)

\* Math.sin to six decimal places, times SinScale, at 0, 0.5, .. 90 degrees.
SinScale == 1000000
sinQuarter == <<
    0, 8727, 17452, 26177, 34899, 43619, 52336, 61049,
    69756, 78459, 87156, 95846, 104528, 113203, 121869, 130526,
    139173, 147809, 156434, 165048, 173648, 182236, 190809, 199368,
    207912, 216440, 224951, 233445, 241922, 250380, 258819, 267238,
    275637, 284015, 292372, 300706, 309017, 317305, 325568, 333807,
    342020, 350207, 358368, 366501, 374607, 382683, 390731, 398749,
    406737, 414693, 422618, 430511, 438371, 446198, 453990, 461749,
    469472, 477159, 484810, 492424, 500000, 507538, 515038, 522499,
    529919, 537300, 544639, 551937, 559193, 566406, 573576, 580703,
    587785, 594823, 601815, 608761, 615661, 622515, 629320, 636078,
    642788, 649448, 656059, 662620, 669131, 675590, 681998, 688355,
    694658, 700909, 707107, 713250, 719340, 725374, 731354, 737277,
    743145, 748956, 754710, 760406, 766044, 771625, 777146, 782608,
    788011, 793353, 798636, 803857, 809017, 814116, 819152, 824126,
    829038, 833886, 838671, 843391, 848048, 852640, 857167, 861629,
    866025, 870356, 874620, 878817, 882948, 887011, 891007, 894934,
    898794, 902585, 906308, 909961, 913545, 917060, 920505, 923880,
    927184, 930418, 933580, 936672, 939693, 942641, 945519, 948324,
    951057, 953717, 956305, 958820, 961262, 963630, 965926, 968148,
    970296, 972370, 974370, 976296, 978148, 979925, 981627, 983255,
    984808, 986286, 987688, 989016, 990268, 991445, 992546, 993572,
    994522, 995396, 996195, 996917, 997564, 998135, 998630, 999048,
    999391, 999657, 999848, 999962, 1000000>>

\* Math.sin and Math.cos of an angle given in half degrees
Sin(a2) ==
    LET a == a2 % 720
    IN  IF a <= 180 THEN sinQuarter[a + 1]
        ELSE IF a <= 360 THEN sinQuarter[360 - a + 1]
        ELSE IF a <= 540 THEN -sinQuarter[a - 360 + 1]
        ELSE -sinQuarter[720 - a + 1]
Cos(a2) == Sin(a2 + 180)

\* <<Math.round(centerY + Math.sin(angle) * r),
\*   Math.round(centerX + Math.cos(angle) * r * 2)>> for r = r2 / 2;
\* Math.round(z) is floor(z + 0.5)
CellAt(a2, r2) ==
    <<FloorDiv(2 * SinScale * centerY + Sin(a2) * r2 + SinScale, 2 * SinScale),
      FloorDiv(2 * SinScale * centerX + 2 * Cos(a2) * r2 + SinScale, 2 * SinScale)>>

\* y >= 0 && y < sizeY && x >= 0 && x < sizeX
onBoard(c) == c[1] >= 0 /\ c[1] < sizeY /\ c[2] >= 0 /\ c[2] < sizeX

\* hours, minutes, seconds from the time argument: the remaining ms of a
\* timer, or a Date, held as the seconds since local midnight
analogTime(isTimer, v) ==
    IF isTimer
    THEN LET totalSeconds == CeilDiv(v, 1000)
         IN  [hours |-> JsMod(FloorDiv(totalSeconds, 3600), 12),
              minutes |-> JsMod(FloorDiv(totalSeconds, 60), 60),
              seconds |-> JsMod(totalSeconds, 60)]
    ELSE [hours |-> FloorDiv(v, 3600) % 12,
          minutes |-> FloorDiv(v, 60) % 60,
          seconds |-> v % 60]

\* The character sets, by code point
chars(glyphs) ==
    IF glyphs
    THEN [dialHour |-> "uf111", dialMinute |-> "uf192", dialOther |-> "u00b7",
          handHour |-> "u2588", handMinute |-> "uf111", handSecond |-> "uf192",
          center |-> "uf017"]
    ELSE [dialHour |-> "u25cf", dialMinute |-> "u2022", dialOther |-> "u00b7",
          handHour |-> "u2588", handMinute |-> "u25cf", handSecond |-> "u00b7",
          center |-> "u2295"]

\* A cell of the board: a character wrapped by a chalk colour function
Cell(char, color) == [char |-> char, color |-> color]

\* board[y][x] = c: the cells not written stay " " and are left out
Put(board, cell, c) == (cell :> c) @@ board

\* The dial loop, r = 0, 2, .. 358 degrees: a cell keeps the write of the
\* largest r that reaches it
dialAngles == {2 * k : k \in 0..179}
dialMark(r, ch) ==
    IF r % 30 = 0 THEN Cell(ch.dialHour, "white.bold")
    ELSE IF r % 6 = 0 THEN Cell(ch.dialMinute, "gray")
    ELSE Cell(ch.dialOther, "dim")
drawDial(board, ch) ==
    LET at == [r \in dialAngles |-> CellAt(2 * r, 2 * radius)]
        hit == {r \in dialAngles : onBoard(at[r])}
        last(c) == CHOOSE r \in hit : at[r] = c /\ \A q \in hit : at[q] = c => q <= r
    IN  [c \in {at[r] : r \in hit} |-> dialMark(last(c), ch)] @@ board

numbers == <<3, 4, 5, 6, 7, 8, 9, 10, 11, 12, 1, 2>>

\* numbers.forEach from index i (0-based) on
RECURSIVE drawNumbers(_, _)
drawNumbers(board, i) ==
    IF i >= Len(numbers) THEN board
    ELSE LET num == numbers[i + 1]
             cell == CellAt(2 * i * 30, 2 * (radius - 2))
             left == <<cell[1], cell[2] - 1>>
             units == Put(board, cell, Cell(toString(num % 10), "none"))
         IN  drawNumbers(
                 IF ~onBoard(cell) THEN board
                 ELSE IF num > 9 /\ cell[2] > 0
                      THEN Put(units, left, Cell(toString(FloorDiv(num, 10)), "none"))
                      ELSE units,
                 i + 1)

\* The cells drawHand writes: r = 0, 0.5, .. while r <= radius * lengthRatio.
\* value60 is value * 60 (the hour hand's value is hours + minutes / 60) and
\* lengthPct is lengthRatio * 100, so the angle (value / total) * 2 PI - PI / 2
\* is value60 * 12 / total - 180 half degrees
handCells(value60, total, lengthPct) ==
    {c \in {CellAt(FloorDiv(value60 * 12, total) - 180, r2) :
                r2 \in 0..FloorDiv(2 * radius * lengthPct, 100)} : onBoard(c)}

drawHand(board, value60, total, lengthPct, char, color) ==
    [c \in handCells(value60, total, lengthPct) |-> Cell(char, color)] @@ board

\* Faulty variant of drawHands: the hour hand is drawn before the minute hand.
drawHands_hourFirst(board, t, ch) ==
    LET second == drawHand(board, t.seconds * 60, 60, 90, ch.handSecond, "blue")
        hour == drawHand(second, t.hours * 60 + t.minutes, 12, 50,
                         ch.handHour, "red.bold")
        minute == drawHand(hour, t.minutes * 60, 60, 75, ch.handMinute,
                           "green.bold")
    IN  Put(minute, <<centerY, centerX>>, Cell(ch.center, "white"))

\* The three drawHand calls, then board[centerY][centerX] = center
drawHands(board, t, ch) ==
    LET second == drawHand(board, t.seconds * 60, 60, 90, ch.handSecond, "blue")
        minute == drawHand(second, t.minutes * 60, 60, 75, ch.handMinute,
                           "green.bold")
        hour == drawHand(minute, t.hours * 60 + t.minutes, 12, 50,
                         ch.handHour, "red.bold")
    IN  Put(hour, <<centerY, centerX>>, Cell(ch.center, "white"))

\* The dial and the numbers, which do not depend on the time
faceBoards == [g \in BOOLEAN |-> drawNumbers(drawDial(EmptyObject, chars(g)), 0)]

\* The board getAnalogClock has drawn when it joins the rows
analogBoard(isTimer, v, glyphs) ==
    drawHands(faceBoards[glyphs], analogTime(isTimer, v), chars(glyphs))

(***************************************************************************)
(* render: terminal size, content block, fit check, footer.                *)
(***************************************************************************)
DefaultRows == 24
DefaultColumns == 80

\* termSize.getSize(): process.stdout.rows || 24, .columns || 80
getSize(stdoutRows, stdoutColumns) ==
    [rows |-> IF stdoutRows = 0 THEN DefaultRows ELSE stdoutRows,
     columns |-> IF stdoutColumns = 0 THEN DefaultColumns ELSE stdoutColumns]

FontNameLen(font) == IF font = "Small" THEN 5 ELSE 8

\* A line of the content block: what it is, its visible length, and the
\* time text it carries (if any).
Line(kind, len, text) == [kind |-> kind, len |-> len, text |-> text]

requiredWidth(metrics) == metrics.blockWidth * 3 + metrics.sepWidth * 2

\* Faulty variant of DigitalTooSmall: the two spare rows are forgotten.
DigitalTooSmall_noSpare(size, metrics) ==
    size.columns < requiredWidth(metrics) \/ size.rows < metrics.height

\* size.columns < requiredWidth || size.rows < requiredHeight + 2
DigitalTooSmall(size, metrics) ==
    size.columns < requiredWidth(metrics) \/ size.rows < metrics.height + 2

\* size.columns < 90 || size.rows < 45
AnalogTooSmall(size) == size.columns < 90 \/ size.rows < 45

effectiveStyleOf(st, font, size) ==
    IF st = "digital" /\ DigitalTooSmall(size, getFontMetrics(font)) THEN "text"
    ELSE IF st = "analog" /\ AnalogTooSmall(size) THEN "text"
    ELSE st

\* The warning appended when the requested style does not fit.
WarningLines(st, font, size) ==
    IF st = "digital" /\ DigitalTooSmall(size, getFontMetrics(font))
    THEN <<Line("warning",
                79 + FontNameLen(font)
                   + Len(toString(requiredWidth(getFontMetrics(font))))
                   + Len(toString(getFontMetrics(font).height)),
                <<>>)>>
    ELSE IF st = "analog" /\ AnalogTooSmall(size)
    THEN <<Line("warning", 75, <<>>)>>
    ELSE <<>>

\* The body for the effective style.
BodyLines(effectiveStyle, text, font) ==
    IF effectiveStyle = "digital"
    THEN LET art == getDigitalClock(text, font) IN
         [i \in DOMAIN art |-> Line("digital", art[i], <<>>)]
             \o <<Line("font", 6 + FontNameLen(font), <<>>)>>
    ELSE IF effectiveStyle = "analog"
    THEN [i \in 1..sizeY |-> Line("analog", getAnalogClock[i], <<>>)]
             \o <<Line("time", Len(text), text)>>
    ELSE <<Line("text", Len(text) + 4, <<" ", " ">> \o text \o <<" ", " ">>)>>

LabelLines(label) == IF label # <<>> THEN <<Line("label", Len(label), <<>>)>> ELSE <<>>

PausedLines(paused) == IF paused THEN <<Line("paused", 8, <<>>)>> ELSE <<>>

\* Faulty variant of Content: the banner is put above the label.
Content_bannerFirst(label, paused, st, text, font, size) ==
    PausedLines(paused) \o LabelLines(label) \o WarningLines(st, font, size)
        \o BodyLines(effectiveStyleOf(st, font, size), text, font)

\* content.split("\n")
Content(label, paused, st, text, font, size) ==
    LabelLines(label) \o PausedLines(paused) \o WarningLines(st, font, size)
        \o BodyLines(effectiveStyleOf(st, font, size), text, font)

\* Faulty variant of FooterStyle: the hints follow the downgraded style.
FooterStyle_effective(requested, effective) == effective

\* The style whose key hints the footer shows.
FooterStyle(requested, effective) == requested

\* footerText, as the sequence of the pieces appended
FooterText(st, glyphs, isTimer) ==
    <<"q: Quit | d: Digital | a: Analog | t: Text">>
        \o (IF st = "digital" THEN <<" | f: Cycle Font">>
            ELSE IF st = "analog"
                 THEN <<IF glyphs THEN " | g: Glyphs (ON)" ELSE " | g: Glyphs (OFF)">>
                 ELSE <<>>)
        \o (IF isTimer THEN <<" | r: Reset | space: Start/Pause">> ELSE <<>>)

\* stripAnsi(piece).length of a piece of the footer
FooterPieceLen(piece) ==
    CASE piece = "q: Quit | d: Digital | a: Analog | t: Text" -> 42
      [] piece = " | f: Cycle Font" -> 16
      [] piece = " | g: Glyphs (ON)" -> 17
      [] piece = " | g: Glyphs (OFF)" -> 18
      [] piece = " | r: Reset | space: Start/Pause" -> 32

RECURSIVE FooterLen(_)
FooterLen(footer) ==
    IF footer = <<>> THEN 0
    ELSE FooterPieceLen(Head(footer)) + FooterLen(Tail(footer))

footerHeight == 1

\* Faulty variant of topPadOf: the footer's row is not set aside.
topPadOf_noFooterRow(rows, contentHeight) == FloorDiv(rows - contentHeight, 2)

\* topPad = Math.floor((size.rows - footerHeight - contentHeight) / 2)
topPadOf(rows, contentHeight) == FloorDiv(rows - footerHeight - contentHeight, 2)

\* bottomPad = size.rows - footerHeight - usedLines
bottomPadOf(rows, contentHeight, topPad) ==
    rows - footerHeight - (Max(0, topPad) + contentHeight)

\* Faulty variant of blockLeftPadOf: the block is pushed to the right edge.
blockLeftPadOf_rightAligned(columns, maxContentWidth) == columns - maxContentWidth

\* blockLeftPad = Math.floor((size.columns - maxContentWidth) / 2)
blockLeftPadOf(columns, maxContentWidth) == FloorDiv(columns - maxContentWidth, 2)

\* Faulty variant of totalPadOf: a line is not centred within the block.
totalPadOf_noRelative(columns, maxContentWidth, lineLen) ==
    Max(0, blockLeftPadOf(columns, maxContentWidth))

\* totalPad = Math.max(0, blockLeftPad + relativePad)
totalPadOf(columns, maxContentWidth, lineLen) ==
    Max(0, blockLeftPadOf(columns, maxContentWidth)
             + FloorDiv(maxContentWidth - lineLen, 2))

\* footerPad = Math.floor((size.columns - stripAnsi(footerText).length) / 2)
footerPadOf(columns, footerLen) == FloorDiv(columns - footerLen, 2)

\* The placement of the frame: the blank lines emitted above and below
\* the content, the spaces put before each content line and the footer.
Layout(lines, footer, size) ==
    LET contentHeight == Len(lines)
        lineWidths == [i \in DOMAIN lines |-> lines[i].len]
        maxContentWidth == SeqMax(lineWidths)
        topPad == topPadOf(size.rows, contentHeight)
        bottomPad == bottomPadOf(size.rows, contentHeight, topPad)
        footerPad == footerPadOf(size.columns, FooterLen(footer))
    IN  [topPad |-> Max(0, topPad),
         linePad |-> [i \in DOMAIN lines |->
                        totalPadOf(size.columns, maxContentWidth, lineWidths[i])],
         bottomPad |-> Max(0, bottomPad),
         footerPad |-> Max(0, footerPad)]

\* render(data, style, label, font, isPaused, useGlyphs) on a terminal
\* reporting in.rows x in.columns (0: not reported); the result is the
\* frame handed to logUpdate.
render(in) ==
    LET size == getSize(in.rows, in.columns)
        text == IF in.isTimer THEN formatDuration(in.v) ELSE formatTime(in.v)
        effective == effectiveStyleOf(in.style, in.font, size)
        lines == Content(in.label, in.isPaused, in.style, text, in.font, size)
        footer == FooterText(FooterStyle(in.style, effective), in.useGlyphs,
                             in.isTimer)
    IN  [content |-> lines,
         footer |-> footer,
         effectiveStyle |-> effective,
         layout |-> Layout(lines, footer, size)]

(***************************************************************************)
(* SpecRender: render on bounded inputs.                                   *)
(***************************************************************************)
\* Terminal sizes as process.stdout reports them (0: not reported): the
\* 40x20 terminal of the spec's example, the analog thresholds and each
\* font's digital thresholds, from both sides.
TermRows ==
    {0, 20, 44, 45}
        \cup {getFontMetrics(f).height + d : f \in FontNames, d \in {1, 2}}
TermColumns ==
    {0, 40, 89, 90}
        \cup {requiredWidth(getFontMetrics(f)) - d : f \in FontNames, d \in {0, 1}}

RenderInputs ==
    {[isTimer |-> t, v |-> v, style |-> st, label |-> l, font |-> f,
      isPaused |-> p, useGlyphs |-> g, rows |-> r, columns |-> c] :
        t \in BOOLEAN, v \in {36000000, 65000}, st \in InitStyles,
        l \in {NoLabel, Label, PausedLabel}, f \in FontNames, p \in BOOLEAN,
        g \in BOOLEAN, r \in TermRows, c \in TermColumns}

InitRender ==
    /\ appIdle
    /\ fIn = 0
    /\ fOut = <<>>
    /\ rIn \in RenderInputs
    /\ rOut = NoFrame
    /\ cfgIdle
    /\ metricIdle
    /\ analogIdle
    /\ liveIdle

Render ==
    /\ rOut = NoFrame
    /\ rOut' = render(rIn)
    /\ UNCHANGED <<appVars, fIn, fOut, rIn, cfgVars, metricVars, analogVars,
                 liveVars>>

NextRender == Render

SpecRender == InitRender /\ [][NextRender]_vars

(***************************************************************************)
(* Properties of render.                                                   *)
(***************************************************************************)
rendered == rOut # NoFrame

\* The terminal size render works with.
termRows == IF rIn.rows = 0 THEN 24 ELSE rIn.rows
termColumns == IF rIn.columns = 0 THEN 80 ELSE rIn.columns

Kinds(lines) == [i \in DOMAIN lines |-> lines[i].kind]
CountKind(lines, k) == Cardinality({i \in DOMAIN lines : lines[i].kind = k})
HasKind(lines, k) == \E i \in DOMAIN lines : lines[i].kind = k

\* The fit check of the requested style, as the spec states it.
Fits ==
    LET m == getFontMetrics(rIn.font) IN
    CASE rIn.style = "digital" ->
            /\ termColumns >= 3 * m.blockWidth + 2 * m.sepWidth
            /\ termRows >= m.height + 2
      [] rIn.style = "analog" -> termColumns >= 90 /\ termRows >= 45
      [] OTHER -> TRUE

\* The body shown is the one of style st.
BodyIs(st) ==
    CASE st = "digital" ->
            /\ HasKind(rOut.content, "digital")
            /\ ~HasKind(rOut.content, "analog") /\ ~HasKind(rOut.content, "text")
      [] st = "analog" ->
            /\ HasKind(rOut.content, "analog")
            /\ ~HasKind(rOut.content, "digital") /\ ~HasKind(rOut.content, "text")
      [] OTHER ->
            /\ CountKind(rOut.content, "text") = 1
            /\ ~HasKind(rOut.content, "digital") /\ ~HasKind(rOut.content, "analog")

\* The body is the requested one exactly when the fit check passes; when
\* it fails the body is the Text body and one warning line is added.
FitDecidesBody ==
    (rendered /\ rIn.style \in Styles) =>
        /\ Fits <=> BodyIs(rIn.style)
        /\ Fits => CountKind(rOut.content, "warning") = 0
        /\ ~Fits => (BodyIs("text") /\ CountKind(rOut.content, "warning") = 1)

Is40x20 == termColumns = 40 /\ termRows = 20

\* C6 as stated: the fit check decides the body, and a 40x20 terminal
\* never shows Digital or Analog art, whatever the font metrics.
C6_Original ==
    /\ FitDecidesBody
    /\ (rendered /\ Is40x20) =>
            (~HasKind(rOut.content, "digital") /\ ~HasKind(rOut.content, "analog"))

\* C6 amended: the fit check decides the body; a 40x20 terminal never
\* shows Analog art, and shows Digital art exactly for a font whose
\* footprint fits it (3*blockWidth + 2*sepWidth <= 40 and height + 2 <= 20).
C6_FitCheckDecidesBody ==
    /\ FitDecidesBody
    /\ (rendered /\ Is40x20) =>
            /\ ~HasKind(rOut.content, "analog")
            /\ HasKind(rOut.content, "digital") <=>
                  /\ rIn.style = "digital"
                  /\ requiredWidth(getFontMetrics(rIn.font)) <= 40
                  /\ getFontMetrics(rIn.font).height + 2 <= 20

\* C6 witness: a digital request on a terminal one column too narrow was
\* downgraded to the Text body with a warning.
C6_Witness ==
    /\ rendered
    /\ rIn.style = "digital"
    /\ termColumns = requiredWidth(getFontMetrics(rIn.font)) - 1
    /\ termRows >= getFontMetrics(rIn.font).height + 2
    /\ BodyIs("text")
    /\ HasKind(rOut.content, "warning")

InSeq(x, q) == \E i \in DOMAIN q : q[i] = x

\* C7: the footer starts with the fixed key list, has the font hint iff
\* the requested style is digital, the glyph hint (showing the glyph flag)
\* iff it is analog, and the reset/pause hint iff the data is a duration;
\* the requested style decides, also when the body was downgraded.
C7_FooterFollowsRequestedStyle ==
    rendered =>
        /\ rOut.footer # <<>>
        /\ rOut.footer[1] = "q: Quit | d: Digital | a: Analog | t: Text"
        /\ InSeq(" | f: Cycle Font", rOut.footer) <=> (rIn.style = "digital")
        /\ InSeq(" | g: Glyphs (ON)", rOut.footer)
              <=> (rIn.style = "analog" /\ rIn.useGlyphs)
        /\ InSeq(" | g: Glyphs (OFF)", rOut.footer)
              <=> (rIn.style = "analog" /\ ~rIn.useGlyphs)
        /\ InSeq(" | r: Reset | space: Start/Pause", rOut.footer) <=> rIn.isTimer
        /\ Len(rOut.footer) = 1 + (IF rIn.style \in {"digital", "analog"} THEN 1 ELSE 0)
                                + (IF rIn.isTimer THEN 1 ELSE 0)

\* C7 witness: a timer frame whose digital body was downgraded to Text
\* still shows the font hint and the reset/pause hint.
C7_Witness ==
    /\ rendered
    /\ rIn.isTimer
    /\ rIn.style = "digital"
    /\ rOut.effectiveStyle = "text"
    /\ InSeq(" | f: Cycle Font", rOut.footer)
    /\ InSeq(" | r: Reset | space: Start/Pause", rOut.footer)

\* q contains p as a run of consecutive elements.
Contains(q, p) ==
    \E k \in 0..(Len(q) - Len(p)) : SubSeq(q, k + 1, k + Len(p)) = p

BodyKinds == {"digital", "font", "analog", "time", "text"}

\* C9: the content block is, top-down, the label line iff the label is
\* non-empty, the PAUSED banner iff isPaused, the warning line iff the style
\* was downgraded, then the body; with Text or Analog as the effective style
\* a line of the frame carries the formatted time text.
C9_ContentOrder ==
    rendered =>
        LET kinds == Kinds(rOut.content)
            head == (IF rIn.label # <<>> THEN <<"label">> ELSE <<>>)
                        \o (IF rIn.isPaused THEN <<"paused">> ELSE <<>>)
                        \o (IF rOut.effectiveStyle # rIn.style
                            THEN <<"warning">> ELSE <<>>)
            timeText == IF rIn.isTimer THEN formatDuration(rIn.v)
                        ELSE formatTime(rIn.v)
        IN  /\ Len(kinds) > Len(head)
            /\ SubSeq(kinds, 1, Len(head)) = head
            /\ \A i \in (Len(head) + 1)..Len(kinds) : kinds[i] \in BodyKinds
            /\ rOut.effectiveStyle \in {"text", "analog"} =>
                  \E i \in (Len(head) + 1)..Len(kinds) :
                      Contains(rOut.content[i].text, timeText)

\* C9 witness: a paused, labelled frame whose analog request was
\* downgraded: label, banner, warning and Text body, in this order.
C9_Witness ==
    /\ rendered
    /\ rIn.style = "analog"
    /\ Kinds(rOut.content) = <<"label", "paused", "warning", "text">>
    /\ Contains(rOut.content[4].text, <<"0", "0", ":", "0", "1", ":", "0", "5">>)

\* The frame as emitted: blank lines, the content lines, blank lines, the
\* footer.
contentHeight == Len(rOut.content)
frameHeight == rOut.layout.topPad + contentHeight + rOut.layout.bottomPad + 1
lineLen(i) == rOut.content[i].len
maxContentWidth == SeqMax([i \in DOMAIN rOut.content |-> lineLen(i)])
footerLen == FooterLen(rOut.footer)

\* C23: whenever the requested style passes its fit check, the emitted
\* frame (label, PAUSED banner, body with its trailing line, footer) has
\* no more lines than the terminal has rows, and no line of it, with its
\* left padding, is wider than the terminal's columns.
C23_FrameFitsTerminal ==
    (rendered /\ rIn.style \in Styles /\ Fits) =>
        /\ frameHeight <= termRows
        /\ \A i \in DOMAIN rOut.content :
                rOut.layout.linePad[i] + lineLen(i) <= termColumns
        /\ rOut.layout.footerPad + footerLen <= termColumns

\* C24: with R terminal rows and H content lines, the frame is
\* max(0, floor((R-1-H)/2)) blank lines, the H content lines,
\* max(0, R-1-(topPad+H)) blank lines (topPad clamped) and the footer; it
\* has exactly R lines when H <= R-1 and exactly H+1 lines otherwise.
C24_VerticalPadding ==
    rendered =>
        LET R == termRows
            H == contentHeight
            top == rOut.layout.topPad
        IN  /\ top = Max(0, (R - 1 - H) \div 2)
            /\ rOut.layout.bottomPad = Max(0, R - 1 - (top + H))
            /\ frameHeight = IF H <= R - 1 THEN R ELSE H + 1

\* C24 witness: a frame whose content is taller than the terminal: both
\* pads are clamped to zero and the frame has H+1 lines.
C24_Witness ==
    /\ rendered
    /\ contentHeight > termRows - 1
    /\ rOut.layout.topPad = 0
    /\ rOut.layout.bottomPad = 0
    /\ frameHeight = contentHeight + 1

\* C25: with C columns and block width W (the greatest visible line
\* length), a line of visible length l is prefixed with
\* max(0, floor((C-W)/2) + floor((W-l)/2)) spaces and the footer, of
\* visible length f, with max(0, floor((C-f)/2)) spaces, whatever W is.
C25_HorizontalPadding ==
    rendered =>
        LET C == termColumns
            W == maxContentWidth
        IN  /\ \A i \in DOMAIN rOut.content :
                    rOut.layout.linePad[i]
                        = Max(0, ((C - W) \div 2) + ((W - lineLen(i)) \div 2))
            /\ rOut.layout.footerPad = Max(0, (C - footerLen) \div 2)

\* C25 witness: a block with a line shorter than the widest one, centred
\* within it, while the footer is too long for the terminal.
C25_Witness ==
    /\ rendered
    /\ \E i \in DOMAIN rOut.content :
            /\ lineLen(i) + 2 <= maxContentWidth
            /\ rOut.layout.linePad[i] > (termColumns - maxContentWidth) \div 2
            /\ (termColumns - maxContentWidth) \div 2 > 0
    /\ footerLen > termColumns
    /\ rOut.layout.footerPad = 0

\* C26: when the widest content line fits the terminal (W <= C), every
\* content line ends at or before the right edge, and the left and right
\* margins of the widest line differ by at most 1.
C26_NoLineCrossesEdge ==
    (rendered /\ maxContentWidth <= termColumns) =>
        \A i \in DOMAIN rOut.content :
            /\ rOut.layout.linePad[i] + lineLen(i) <= termColumns
            /\ (lineLen(i) = maxContentWidth) =>
                  LET left == rOut.layout.linePad[i]
                      right == termColumns - left - lineLen(i)
                  IN  right - left \in {0, 1}

\* C26 witness: a block of several lines in a terminal that leaves an odd
\* number of spare columns: the widest line's margins differ by 1.
C26_Witness ==
    /\ rendered
    /\ Len(rOut.content) >= 3
    /\ maxContentWidth < termColumns
    /\ (termColumns - maxContentWidth) % 2 = 1
    /\ \E i \in DOMAIN rOut.content : lineLen(i) < maxContentWidth

(***************************************************************************)
(* Start-up: the program is launched with or without --style against the   *)
(* preferences file, the preference keys are pressed, the program is quit  *)
(* and launched again.                                                     *)
(***************************************************************************)
\* fontIndex values a preferences file may hold (7 is past the font list).
FileFontIndexes == {0, 1, 7}

\* Values of the --style flag.
StyleFlags == InitStyles \cup {NoFlag}

\* Objects a preferences file may hold: any subset of the keys.
FileObjects ==
    {Spread(Spread(a, b), c) :
        a \in {EmptyObject} \cup {[style |-> st] : st \in InitStyles},
        b \in {EmptyObject} \cup {[fontIndex |-> i] : i \in FileFontIndexes},
        c \in {EmptyObject} \cup {[useGlyphs |-> g] : g \in BOOLEAN}}

\* The file when the program is first launched: absent, not JSON, or JSON.
DiskStates ==
    {NoFile, [exists |-> TRUE, text |-> NotJson]}
        \cup {[exists |-> TRUE, text |-> JSONstringify(o)] : o \in FileObjects}

InitStart ==
    /\ appIdle
    /\ fIn = 0 /\ fOut = <<>> /\ rIn = NoRenderInput /\ rOut = NoFrame
    /\ metricIdle
    /\ analogIdle
    /\ liveIdle
    /\ disk \in DiskStates
    /\ proc = "off"
    /\ cliStyle = NoFlag
    /\ cfgOp = "none"

\* What start-up and the preference keys leave alone.
startFrame ==
    UNCHANGED <<mode, interval, endTime, isPaused, remainingMs, duration, now,
                timers, cursorHidden, altScreen, exited, exitCode, notified,
                stderr, phase, lastOp, opArg, renders, fIn, fOut, rIn, rOut,
                metricVars, analogVars, liveVars>>

\* index.ts 101-118, 170-176: load the preferences, ask about glyphs when
\* the preference is undefined (and save the answer), construct the app.
Launch(flag, answer) ==
    /\ proc = "off"
    /\ LET config == loadConfig(disk).value
           asked == "useGlyphs" \notin DOMAIN config
           glyphs == IF asked THEN answer ELSE config.useGlyphs
       IN  /\ IF asked
              THEN /\ configFile' = Spread(config, [useGlyphs |-> glyphs])
                   /\ disk' = saveConfig(disk, configFile')
                   /\ saves' = 1
              ELSE /\ UNCHANGED <<configFile, disk>>
                   /\ saves' = 0
           /\ style' = IF flag # NoFlag THEN flag ELSE config.style
           /\ fontIndex' = config.fontIndex
           /\ useGlyphs' = glyphs
    /\ proc' = "on"
    /\ cliStyle' = flag
    /\ cfgOp' = "launch"
    /\ startFrame

\* saveState's saveConfig call reaches the file.
persist == disk' = IF saves' = 1 THEN saveConfig(disk, configFile') ELSE disk

PressStyle(s) ==
    /\ proc = "on"
    /\ setStyle(s)
    /\ persist
    /\ cfgOp' = "setStyle"
    /\ UNCHANGED <<proc, cliStyle>>
    /\ startFrame

PressFont ==
    /\ proc = "on"
    /\ cycleFont
    /\ persist
    /\ cfgOp' = "cycleFont"
    /\ UNCHANGED <<proc, cliStyle>>
    /\ startFrame

PressGlyphs ==
    /\ proc = "on"
    /\ toggleGlyphs
    /\ persist
    /\ cfgOp' = "toggleGlyphs"
    /\ UNCHANGED <<proc, cliStyle>>
    /\ startFrame

\* key q: the process ends; the file stays.
PressQuit ==
    /\ proc = "on"
    /\ proc' = "off"
    /\ cfgOp' = "quit"
    /\ saves' = 0
    /\ UNCHANGED <<style, fontIndex, useGlyphs, configFile, disk, cliStyle>>
    /\ startFrame

NextStart ==
    \/ \E flag \in StyleFlags, answer \in BOOLEAN : Launch(flag, answer)
    \/ \E s \in Styles : PressStyle(s)
    \/ PressFont
    \/ PressGlyphs
    \/ PressQuit

SpecStart == InitStart /\ [][NextStart]_vars

\* What loadConfig returns for the file as it is.
loaded == loadConfig(disk)

\* C12: when the program has been started with --style, that style is in
\* the preferences file, so that a later start without the flag uses it.
C12_FlagStyleSaved ==
    (cfgOp = "launch" /\ cliStyle # NoFlag) => loaded.value.style = cliStyle

\* The object the file's text denotes (meaningful when the text is JSON).
fileObject == ObjectOf(disk.text.members)

MetricTexts == {formatDuration(ms) : ms \in {0, 86399000, 360000000}}

\* One figlet.textSync(str, {font}) call and what it was made for.
FigletCall(purpose, font, str) == [purpose |-> purpose, font |-> font, str |-> str]

\* The calls of getFontMetrics' measuring loop and of its separator
\* measurement (part_002 195-204).
MeasureCalls(font) ==
    [i \in 1..60 |-> FigletCall("metrics", font, PadStart2(toString(i - 1)))]
        \o <<FigletCall("metrics", font, <<":">>)>>

\* fontMetricsCache[font] = metrics
Store(cache, font, metrics) ==
    [f \in (DOMAIN cache) \cup {font} |-> IF f = font THEN metrics ELSE cache[f]]

\* The measurement of a font, measureFont(font), tabulated.
measured(font) == fontMetricsCache[font]

\* Faulty variant of getFontMetricsCall: the cache is never consulted.
getFontMetricsCall_noHit(cache, font) ==
    [metrics |-> measured(font), calls |-> MeasureCalls(font),
     cache |-> Store(cache, font, measured(font))]

\* getFontMetrics(font) against the cache as it is: the metrics returned,
\* the figlet calls made and the cache afterwards.
getFontMetricsCall(cache, font) ==
    IF font \in DOMAIN cache
    THEN [metrics |-> cache[font], calls |-> <<>>, cache |-> cache]
    ELSE [metrics |-> measured(font), calls |-> MeasureCalls(font),
          cache |-> Store(cache, font, measured(font))]

\* getCachedBlock over the strings in order: the figlet calls of the misses
RECURSIVE BlockCalls(_, _, _)
BlockCalls(cached, font, strs) ==
    IF strs = <<>> THEN <<>>
    ELSE (IF <<font, strs[1]>> \in cached
          THEN <<>>
          ELSE <<FigletCall("block", font, strs[1])>>)
            \o BlockCalls(cached \cup {<<font, strs[1]>>}, font, Tail(strs))

InitMetrics ==
    /\ appIdle
    /\ fIn = 0 /\ fOut = <<>> /\ rIn = NoRenderInput /\ rOut = NoFrame
    /\ cfgIdle
    /\ metricIdle
    /\ analogIdle
    /\ liveIdle

GetFontMetrics(font) ==
    /\ LET r == getFontMetricsCall(metricsCache, font)
       IN  /\ metricsCache' = r.cache
           /\ figletLog' = r.calls
           /\ mOut' = r.metrics
    /\ mOp' = "getFontMetrics"
    /\ mFont' = font
    /\ mText' = <<>>
    /\ UNCHANGED <<digitCache, dOut>>
    /\ UNCHANGED <<appVars, fIn, fOut, rIn, rOut, cfgVars, analogVars, liveVars>>

GetDigitalClock(text, font) ==
    /\ LET r == getFontMetricsCall(metricsCache, font)
           parts == Split(text)
           strs == <<parts[1], parts[2], parts[3], <<":">> >>
       IN  /\ metricsCache' = r.cache
           /\ figletLog' = r.calls \o BlockCalls(digitCache, font, strs)
           /\ digitCache' = digitCache \cup {<<font, strs[i]>> : i \in DOMAIN strs}
           /\ mOut' = r.metrics
    /\ dOut' = getDigitalClock(text, font)
    /\ mOp' = "getDigitalClock"
    /\ mFont' = font
    /\ mText' = text
    /\ UNCHANGED <<appVars, fIn, fOut, rIn, rOut, cfgVars, analogVars, liveVars>>

NextMetrics ==
    \/ \E font \in FigletFonts : GetFontMetrics(font)
    \/ \E text \in MetricTexts, font \in FigletFonts : GetDigitalClock(text, font)

SpecMetrics == InitMetrics /\ [][NextMetrics]_vars

\* The figlet calls of the last step that were made to measure a font.
metricCalls == SelectSeq(figletLog, LAMBDA c : c.purpose = "metrics")

\* C17: a font's metrics, once in the cache, never change, so repeated
\* getFontMetrics calls return identical metrics.  A call for a font not
\* yet measured invokes figlet 61 times, for "00".."59" and ":"; a call
\* for a measured font, whether direct or from getDigitalClock, invokes
\* figlet zero times for metrics.
C17_MetricsMeasuredOnce ==
    [][/\ \A f \in DOMAIN metricsCache :
            f \in DOMAIN metricsCache' /\ metricsCache'[f] = metricsCache[f]
       /\ mFont' \in DOMAIN metricsCache'
       /\ mOut' = metricsCache'[mFont']
       /\ IF mFont' \in DOMAIN metricsCache
          THEN metricCalls' = <<>>
          ELSE /\ Len(metricCalls') = 61
               /\ {metricCalls'[i].str : i \in 1..61}
                        = MeasuredStrings \cup {<<":">>}
               /\ \A i \in 1..61 : metricCalls'[i].font = mFont'
       /\ (mOp' = "getFontMetrics") => (figletLog' = metricCalls')]_vars

\* C17 witness: every font has been measured, blocks have been rendered,
\* and a further getFontMetrics call made no figlet call at all.
C17_Witness ==
    /\ mOp = "getFontMetrics"
    /\ figletLog = <<>>
    /\ DOMAIN metricsCache = FigletFonts
    /\ mOut = metricsCache[mFont]
    /\ digitCache # {}

\* C18: the output of getDigitalClock has exactly metrics.height rows, for
\* every font and HH:MM:SS text, whatever the row counts of the glyph
\* blocks it is assembled from.
C18_DigitalClockHeight ==
    (mOp = "getDigitalClock") =>
        /\ mOut = getFontMetrics(mFont)
        /\ Len(dOut) = mOut.height
        /\ DOMAIN dOut = 1..mOut.height

\* C18 witness: a text with three-digit hours was rendered in a font whose
\* digit blocks have fewer rows than the metrics' height.
C18_Witness ==
    /\ mOp = "getDigitalClock"
    /\ Len(Split(mText)[1]) = 3
    /\ Len(FigletTextSync(mFont, Split(mText)[1])) < mOut.height
    /\ Len(dOut) = mOut.height

\* C27: every row of getDigitalClock's output has length exactly
\* 3*blockWidth + 2*sepWidth, the footprint the fit check uses, for every
\* font and every time text, timer hours of any size included.
C27_RowLengthIsFootprint ==
    (mOp = "getDigitalClock") =>
        \A i \in DOMAIN dOut :
            dOut[i] = 3 * mOut.blockWidth + 2 * mOut.sepWidth

(***************************************************************************)
(* SpecAnalog: getAnalogClock on bounded times.                            *)
(***************************************************************************)
\* Times of day in seconds: hands apart, hands on one ray (0:00:00,
\* 3:16:16, 12:00:00), the minute hand near the hour hand, the last second
\* of the day.
AnalogTimes ==
    {h * 3600 + m * 60 + sec :
        h \in {0, 3, 6, 11, 12, 23}, m \in {0, 16, 33, 59},
        sec \in {0, 16, 30, 59}}

\* A Date, or the remaining ms of a timer: whole seconds, a fraction of a
\* second, and the overdue time a late pause passes on.
AnalogInputs ==
    {[isTimer |-> FALSE, v |-> t, useGlyphs |-> g] :
        t \in AnalogTimes, g \in BOOLEAN}
    \cup {[isTimer |-> TRUE, v |-> 1000 * t - d, useGlyphs |-> g] :
            t \in AnalogTimes, d \in {0, 400}, g \in BOOLEAN}
    \cup {[isTimer |-> TRUE, v |-> -1500, useGlyphs |-> g] : g \in BOOLEAN}

InitAnalog ==
    /\ appIdle
    /\ fIn = 0 /\ fOut = <<>> /\ rIn = NoRenderInput /\ rOut = NoFrame
    /\ cfgIdle
    /\ metricIdle
    /\ liveIdle
    /\ aIn \in AnalogInputs
    /\ aOut = EmptyObject

GetAnalogClock ==
    /\ aOut = EmptyObject
    /\ aOut' = analogBoard(aIn.isTimer, aIn.v, aIn.useGlyphs)
    /\ UNCHANGED <<appVars, fIn, fOut, rIn, rOut, cfgVars, metricVars, aIn,
                   liveVars>>

NextAnalog == GetAnalogClock

SpecAnalog == InitAnalog /\ [][NextAnalog]_vars

\* The cells each hand covers for the time drawn, and the centre cell.
drawnTime == analogTime(aIn.isTimer, aIn.v)
centerCell == <<centerY, centerX>>
hourCells == handCells(drawnTime.hours * 60 + drawnTime.minutes, 12, 50)
minuteCells == handCells(drawnTime.minutes * 60, 60, 75)
secondCells == handCells(drawnTime.seconds * 60, 60, 90)

\* C28: the hands are drawn second, minute, hour and then the centre, so
\* for every time the centre cell holds the centre glyph, every other cell
\* the hour hand covers holds the hour glyph, and every cell the minute
\* hand covers that the hour hand does not holds the minute glyph.
C28_HandsDrawnInOrder ==
    (aOut # EmptyObject) =>
        LET ch == chars(aIn.useGlyphs)
        IN  /\ aOut[centerCell] = Cell(ch.center, "white")
            /\ \A c \in hourCells \ {centerCell} :
                   aOut[c] = Cell(ch.handHour, "red.bold")
            /\ \A c \in minuteCells \ (hourCells \cup {centerCell}) :
                   aOut[c] = Cell(ch.handMinute, "green.bold")

\* A board drawn for a time whose three hands lie on one ray: the hour hand
\* covers cells of the minute hand beyond the centre, and the minute hand
\* covers cells of the second hand beyond the hour hand.
C28_Witness ==
    /\ aOut # EmptyObject
    /\ (hourCells \cap minuteCells) \ {centerCell} # {}
    /\ (minuteCells \cap secondCells) \ hourCells # {}
    /\ \E c \in secondCells \ minuteCells :
           aOut[c] = Cell(chars(aIn.useGlyphs).handSecond, "blue")


(***************************************************************************)
(* SpecLive: a timer run to completion.  The quit key is not pressed, at   *)
(* most KeyBudget pause and reset keys are pressed, time advances, the     *)
(* interval callback runs when due and a pause is followed by a resume.    *)
(***************************************************************************)
KeyBudget == 2

\* A timer of ms milliseconds (re)started now ends, last tick included,
\* before the clock of the model stops at MaxTime.
roomFor(ms) == now + Max(0, ms) + TickPeriod <= MaxTime

InitLive ==
    /\ Init
    /\ duration.given /\ duration.ms > 0

\* Time passes; while paused, only as long as the resumed timer has room.
LiveAdvance(d) ==
    /\ isPaused => now + d + Max(0, remainingMs) + TickPeriod <= MaxTime
    /\ Advance(d)

\* key space while the timer runs (index.ts 152-154)
LivePause ==
    /\ running
    /\ mode = "timer" /\ ~isPaused
    /\ presses < KeyBudget
    /\ roomFor(PauseRemaining(endTime, now))
    /\ togglePause
    /\ presses' = presses + 1
    /\ lastOp' = "togglePause"
    /\ opArg' = 0
    /\ noPrefs /\ noExit
    /\ UNCHANGED <<duration, now, phase, stderr, libVars>>

\* key space while the timer is paused (index.ts 152-154)
LiveResume ==
    /\ isPaused
    /\ KeySpace

\* key r (index.ts 147-150)
LiveReset ==
    /\ running
    /\ mode = "timer"
    /\ presses < KeyBudget
    /\ roomFor(duration.ms)
    /\ resetTimer(duration.ms)
    /\ presses' = presses + 1
    /\ lastOp' = "resetTimer"
    /\ opArg' = duration.ms
    /\ renders' = <<>>
    /\ noPrefs /\ noExit
    /\ UNCHANGED <<remainingMs, duration, now, phase, stderr, libVars>>

NextLive ==
    \/ Run
    \/ \E t \in timers : Tick(t)
    \/ \E d \in TimeSteps : LiveAdvance(d)
    \/ LivePause
    \/ LiveResume
    \/ LiveReset

SpecLive ==
    /\ InitLive
    /\ [][NextLive]_vars
    /\ WF_vars(Run)
    /\ WF_vars(\E t \in timers : Tick(t))
    /\ WF_vars(\E d \in TimeSteps : LiveAdvance(d))
    /\ WF_vars(LiveResume)

\* The timer has finished: the final render of 0 was made, the user was
\* notified and the process exited with code 0.
finished ==
    /\ exited /\ exitCode = 0 /\ notified
    /\ lastOp = "tick"
    /\ Len(renders) = 1 /\ renders[1].isTimer /\ renders[1].v = 0
    /\ timers = {}

\* C30: a timer started with a positive duration eventually finishes (the
\* final render of 0, then exit with code 0), when time advances, ticks
\* fire fairly, quit is not pressed, every pause is followed by a resume
\* and the pauses and resets are finitely many.
C30_TimerFinishes ==
    (phase = "started" /\ mode = "timer" /\ ~exited) ~> finished

\* A timer that finished after all the pause and reset keys of the run
\* were pressed, later than its first duration alone would have ended it.
C30_Witness ==
    /\ finished
    /\ presses = KeyBudget
    /\ now > duration.ms + TickPeriod

==========================================================================
